---- MODULE Spec2Model ----
(***************************************************************************)
(* flake8-docstrings: the plugin that adapts pydocstyle (or the legacy     *)
(* pep257 package) to flake8's checker protocol.                           *)
(*                                                                         *)
(* Text is modelled as a sequence of one-character strings, so that        *)
(* str.split, str.partition and concatenation are computed, not assumed.   *)
(* An optional value (Python None or a value) is a sequence of length 0    *)
(* or 1.  A namespace (the class __dict__, the option parser's table) is   *)
(* a function whose DOMAIN is the set of names bound so far, so hasattr    *)
(* is membership in the DOMAIN.                                            *)
(***************************************************************************)
EXTENDS Integers, Sequences, FiniteSets, TLC

\* ------------------------------------------------------------------------
\* Bounds of the model
\* ------------------------------------------------------------------------
MaxMajor == 7
MaxMinor == 3
MaxPatch == 1
MaxErrs == 2
MaxMsgLen == 2
MaxParse == 2
MaxFiles == 2
SharedMaxErrs == 1

\* ------------------------------------------------------------------------
\* Python values
\* ------------------------------------------------------------------------
None == <<>>
Some(v) == <<v>>
Truthy(opt) == opt # None /\ opt[1] # <<>>
EmptyNamespace == [n \in {} |-> None]
HasAttr(ns, name) == name \in DOMAIN ns
SetAttr(ns, name, v) == (name :> v) @@ ns

Range(s) == {s[k] : k \in 1..Len(s)}

RECURSIVE Split(_, _)
\* str.split(sep) for a one-character separator
Split(s, sep) ==
    IF s = <<>> THEN << <<>> >>
    ELSE LET r == Split(Tail(s), sep)
         IN  IF Head(s) = sep THEN << <<>> >> \o r
             ELSE << <<Head(s)>> \o Head(r) >> \o Tail(r)

RECURSIVE Partition0(_, _)
\* str.partition(sep)[0]: the text before the first occurrence of sep
Partition0(s, sep) ==
    IF s = <<>> THEN <<>>
    ELSE IF Head(s) = sep THEN <<>>
    ELSE <<Head(s)>> \o Partition0(Tail(s), sep)

DigitValue(c) ==
    CASE c = "0" -> 0 [] c = "1" -> 1 [] c = "2" -> 2 [] c = "3" -> 3
      [] c = "4" -> 4 [] c = "5" -> 5 [] c = "6" -> 6 [] c = "7" -> 7
      [] c = "8" -> 8 [] c = "9" -> 9

RECURSIVE IntOf(_)
\* int(text) for a decimal numeral
IntOf(s) ==
    IF Len(s) = 1 THEN DigitValue(s[1])
    ELSE 10 * IntOf(SubSeq(s, 1, Len(s) - 1)) + DigitValue(s[Len(s)])

RECURSIVE TupleLess(_, _)
\* Python's < on tuples of integers
TupleLess(a, b) ==
    IF a = <<>> THEN b # <<>>
    ELSE IF b = <<>> THEN FALSE
    ELSE IF Head(a) < Head(b) THEN TRUE
    ELSE IF Head(a) > Head(b) THEN FALSE
    ELSE TupleLess(Tail(a), Tail(b))

TupleGE(a, b) == ~TupleLess(a, b)

\* ------------------------------------------------------------------------
\* The version strings a backend can report
\* ------------------------------------------------------------------------
DigitChar(d) ==
    CASE d = 0 -> "0" [] d = 1 -> "1" [] d = 2 -> "2" [] d = 3 -> "3"
      [] d = 4 -> "4" [] d = 5 -> "5" [] d = 6 -> "6" [] d = 7 -> "7"
      [] d = 8 -> "8" [] d = 9 -> "9"

Numeral(n) ==
    IF n < 10 THEN <<DigitChar(n)>>
    ELSE <<DigitChar(n \div 10), DigitChar(n % 10)>>

VersionText(a, b, c) == Numeral(a) \o <<".">> \o Numeral(b) \o <<".">> \o Numeral(c)

AllVersions ==
    {VersionText(a, b, c) : a \in 4..MaxMajor, b \in 0..MaxMinor, c \in 0..MaxPatch}
       \cup {VersionText(6, 10, 0)}

MainVersions == {VersionText(6, 1, 1), VersionText(6, 2, 0), VersionText(6, 3, 0)}

SharedVersions == {VersionText(6, 3, 0)}

\* ------------------------------------------------------------------------
\* State
\* ------------------------------------------------------------------------
VARIABLES
    module_name,                    \* "" until the module is imported
    backend_version,                \* pep257.__version__
    pydocstyle_version,             \* the parsed tuple; <<>> when not computed
    supports_ignore_inline_noqa,
    supports_property_decorators,
    supports_ignore_self_only_init,
    parser,                         \* flake8's option table, by option name
    cls,                            \* class attributes of pep257Checker
    options,                        \* argument of the last parse_options call
    parse_exc,                      \* exception the last parse_options call raised
    parse_calls,                    \* number of parse_options calls so far
    inst                            \* the checker instances

modvars == <<module_name, backend_version, pydocstyle_version,
             supports_ignore_inline_noqa, supports_property_decorators,
             supports_ignore_self_only_init>>
vars == <<modvars, parser, cls, options, parse_exc, parse_calls, inst>>

Files == 1..MaxFiles

Loaded == module_name # ""

\* ------------------------------------------------------------------------
\* The backend (pydocstyle / pep257), as far as the plugin consumes it
\* ------------------------------------------------------------------------
conventions ==
    ("pep257" :> {"D100"}) @@ ("google" :> {"D100", "D212"})

DescriptionOf(code) ==
    CASE code = "D100" -> <<"m">>
      [] code = "D203" -> <<"b">>
      [] code = "D212" -> <<"s", "\n", "t">>

\* pep257.Error objects the backend's check yields: the line is where the
\* definition starts, the short description is fixed by the code
BackendErrors ==
    {[code |-> "D100", short_desc |-> DescriptionOf("D100"), line |-> 1],
     [code |-> "D203", short_desc |-> DescriptionOf("D203"), line |-> 3],
     [code |-> "D212", short_desc |-> DescriptionOf("D212"), line |-> 2]}

DEFAULT_PROPERTY_DECORATORS == <<"p", ",", "q">>

RECURSIVE TextsUpTo(_)
TextsUpTo(n) ==
    IF n = 0 THEN {<<>>}
    ELSE LET shorter == TextsUpTo(n - 1)
         IN  shorter \cup {Append(t, c) : t \in {u \in shorter : Len(u) = n - 1},
                                          c \in {"x", "\n"}}

\* str(err) of the exceptions the backend raises
FailureTexts == TextsUpTo(MaxMsgLen)

OSErrorTexts == {<<"x">>, <<"x", "\n", "y">>}

NoError == [code |-> "", short_desc |-> <<>>, line |-> 0, class |-> ""]

BackendError(e) ==
    [code |-> e.code, short_desc |-> e.short_desc, line |-> e.line, class |-> "Error"]

\* What one resumption of the backend's check_source generator can do
ErrorEvents(errors) == {[kind |-> "error", err |-> BackendError(e), text |-> <<>>] : e \in errors}
StopEvent == [kind |-> "stop", err |-> NoError, text |-> <<>>]
AllErrorEvents(texts) == {[kind |-> "AllError", err |-> NoError, text |-> t] : t \in texts}
OSErrorEvents(texts) == {[kind |-> "OSError", err |-> NoError, text |-> t] : t \in texts}
OtherRaiseEvent == [kind |-> "ParseError", err |-> NoError, text |-> <<>>]

Events ==
    ErrorEvents(BackendErrors) \cup {StopEvent, OtherRaiseEvent}
        \cup AllErrorEvents(FailureTexts) \cup OSErrorEvents(OSErrorTexts)

SharedEvents ==
    ErrorEvents({e \in BackendErrors : e.code = "D100"}) \cup {StopEvent, OtherRaiseEvent}
        \cup AllErrorEvents({<<"x">>}) \cup OSErrorEvents({<<"x">>})

\* ------------------------------------------------------------------------
\* Module import: the capability probe
\* ------------------------------------------------------------------------
ParseVersion(text) ==
    LET parts == Split(text, ".")
    IN  [k \in 1..Len(parts) |-> IntOf(parts[k])]

NoqaSupported(version) == TupleGE(version, <<6, 0, 0>>)

\* The threshold version itself is excluded
PropertyDecoratorsSupportedAbove(version) == TupleLess(<<6, 2, 0>>, version)

PropertyDecoratorsSupported(version) == TupleGE(version, <<6, 2, 0>>)

SelfOnlyInitSupported(version) == TupleGE(version, <<6, 3, 0>>)

\* "import pydocstyle as pep257" succeeds
ImportPydocstyle(text) ==
    /\ ~Loaded
    /\ module_name' = "pydocstyle"
    /\ backend_version' = text
    /\ pydocstyle_version' = ParseVersion(text)
    /\ supports_ignore_inline_noqa' = NoqaSupported(pydocstyle_version')
    /\ supports_property_decorators' = PropertyDecoratorsSupported(pydocstyle_version')
    /\ supports_ignore_self_only_init' = SelfOnlyInitSupported(pydocstyle_version')
    /\ UNCHANGED <<parser, cls, options, parse_exc, parse_calls, inst>>

\* "import pydocstyle" raises ImportError: the legacy package is imported
ImportPep257 ==
    /\ ~Loaded
    /\ module_name' = "pep257"
    /\ backend_version' = VersionText(0, 7, 0)
    /\ UNCHANGED <<pydocstyle_version, supports_ignore_inline_noqa,
                   supports_property_decorators, supports_ignore_self_only_init>>
    /\ UNCHANGED <<parser, cls, options, parse_exc, parse_calls, inst>>

\* ------------------------------------------------------------------------
\* add_options
\* ------------------------------------------------------------------------
ConventionChoices == DOMAIN conventions \cup {"all"}

BaseOptions ==
    ("--docstring-convention" :>
        [action |-> "store", default |-> Some("pep257"), choices |-> ConventionChoices])
    @@ ("--ignore-decorators" :>
        [action |-> "store", default |-> None, choices |-> {}])

PropertyDecoratorsOption(supported) ==
    IF supported
    THEN "--property-decorators" :>
            [action |-> "store", default |-> Some(DEFAULT_PROPERTY_DECORATORS),
             choices |-> {}]
    ELSE EmptyNamespace

\* The option is declared whatever the backend supports
SelfOnlyInitOptionUngated(supported) ==
    "--ignore-self-only-init" :>
        [action |-> "store_true", default |-> Some(FALSE), choices |-> {}]

SelfOnlyInitOption(supported) ==
    IF supported
    THEN "--ignore-self-only-init" :>
            [action |-> "store_true", default |-> Some(FALSE), choices |-> {}]
    ELSE EmptyNamespace

AddOptions ==
    /\ Loaded
    /\ parser = EmptyNamespace
    /\ parser' = BaseOptions
                   @@ PropertyDecoratorsOption(supports_property_decorators)
                   @@ SelfOnlyInitOption(supports_ignore_self_only_init)
    /\ UNCHANGED <<modvars, cls, options, parse_exc, parse_calls, inst>>

\* ------------------------------------------------------------------------
\* parse_options
\* ------------------------------------------------------------------------
IgnoreDecoratorsInputs == {None, Some(<<>>), Some(<<"a">>), Some(<<"(">>)}

PropertyDecoratorsInputs == {None, Some(DEFAULT_PROPERTY_DECORATORS)}

\* The option values flake8 can hand over, given what add_options declared:
\* a declared option has a value, an undeclared one is absent (None here, and
\* never read)
ParsedOptions ==
    IF ~HasAttr(parser, "--docstring-convention") THEN {}
    ELSE
    [docstring_convention : parser["--docstring-convention"].choices,
     ignore_decorators : IgnoreDecoratorsInputs,
     property_decorators :
        IF HasAttr(parser, "--property-decorators")
        THEN PropertyDecoratorsInputs ELSE {None},
     ignore_self_only_init :
        IF HasAttr(parser, "--ignore-self-only-init") THEN BOOLEAN ELSE {FALSE}]

\* One option set per convention, for the runs that interleave several files
SharedOptions ==
    {o \in ParsedOptions :
        LET all == o.docstring_convention = "all"
        IN  /\ o.docstring_convention \in {"pep257", "all"}
            /\ o.ignore_decorators = (IF all THEN None ELSE Some(<<"a">>))
            /\ HasAttr(parser, "--property-decorators")
                  => (o.property_decorators = None) = all
            /\ HasAttr(parser, "--ignore-self-only-init")
                  => o.ignore_self_only_init = all}

\* re.compile accepts the pattern: its parentheses pair up
ReCompiles(pattern) ==
    Cardinality({k \in 1..Len(pattern) : pattern[k] = "("})
        = Cardinality({k \in 1..Len(pattern) : pattern[k] = ")"})

Compiled(pattern) == [pattern |-> pattern]

\* line 182
BindConvention(c, o) == SetAttr(c, "convention", o.docstring_convention)

\* lines 183-185, when re.compile does not raise
BindIgnoreDecorators(c, o) ==
    SetAttr(c, "ignore_decorators",
            IF Truthy(o.ignore_decorators)
            THEN Some(Compiled(o.ignore_decorators[1])) ELSE None)

\* lines 186-187
BindPropertyDecorators(c, o) ==
    IF supports_property_decorators
    THEN SetAttr(c, "property_decorators", o.property_decorators) ELSE c

\* lines 188-189
BindSelfOnlyInit(c, o) ==
    IF supports_ignore_self_only_init
    THEN SetAttr(c, "ignore_self_only_init", o.ignore_self_only_init) ELSE c

\* A pattern that does not compile is swallowed
CompileNeverRaises(o) == FALSE

CompileRaises(o) == Truthy(o.ignore_decorators) /\ ~ReCompiles(o.ignore_decorators[1])

ParseOptions(o) ==
    /\ Loaded
    /\ parser # EmptyNamespace
    /\ parse_calls < MaxParse
    /\ parse_calls' = parse_calls + 1
    /\ options' = Some(o)
    /\ IF CompileRaises(o)
       THEN /\ cls' = BindConvention(cls, o)
            /\ parse_exc' = "re.error"
       ELSE /\ cls' = BindSelfOnlyInit(
                        BindPropertyDecorators(
                          BindIgnoreDecorators(BindConvention(cls, o), o), o), o)
            /\ parse_exc' = ""
    /\ UNCHANGED <<modvars, parser, inst>>

\* ------------------------------------------------------------------------
\* Checker instances
\* ------------------------------------------------------------------------
SyntheticCodes == {"D998", "D999"}

NoCodes == [all |-> FALSE, codes |-> {}]

NoCall == [called |-> FALSE, source |-> <<>>, filename |-> "",
           ignore_decorators |-> None, kwargs |-> EmptyNamespace]

\* An instance and the frame of its run() generator.  pc is "absent" before
\* __init__, "idle" until run() is first resumed, "running" while it is being
\* consumed, "done" once it is exhausted and "raised" when an exception left it
\* (exc names it).  checked_codes is run's local; convention is the
\* self.convention it was computed from (None when unbound); call is the
\* check_source call; errs are the errors the backend's generator has yielded,
\* failure the exception an except clause caught, alive whether that
\* generator can still be resumed; out is what run() has yielded.
Absent ==
    [pc |-> "absent", tree |-> None, filename |-> "", source |-> <<>>,
     checked_codes |-> NoCodes, convention |-> None, call |-> NoCall,
     errs |-> <<>>, failure |-> None, alive |-> FALSE, out |-> <<>>, exc |-> ""]

RECURSIVE Join(_)
\* "".join(lines)
Join(lines) == IF lines = <<>> THEN <<>> ELSE Head(lines) \o Join(Tail(lines))

SourceLines == {<<>>, << <<"d">>, <<"e", "\n">> >>}

\* __init__
Construct(i, lines) ==
    /\ Loaded
    /\ inst[i].pc = "absent"
    /\ inst' = [inst EXCEPT ![i] =
                  [Absent EXCEPT !.pc = "idle", !.filename = "(none)",
                                 !.source = Join(lines)]]
    /\ UNCHANGED <<modvars, parser, cls, options, parse_exc, parse_calls>>

\* _ContainsAll
ContainsAll == [all |-> TRUE, codes |-> {}]

CodeSet(codes) == [all |-> FALSE, codes |-> codes]

\* "code in checked_codes"
Contains(checked, code) == checked.all \/ code \in checked.codes

\* The convention is never consulted: every code passes
CheckedCodesUnfiltered(c) == ContainsAll

\* run, lines 225-237
CheckedCodes(c) ==
    IF HasAttr(c, "convention")
    THEN IF c["convention"] = "all"
         THEN ContainsAll
         ELSE CodeSet(conventions[c["convention"]] \cup SyntheticCodes)
    ELSE CodeSet(SyntheticCodes)

\* _call_check_source, lines 192-202: the optional keywords
NoqaKeyword == 
    IF supports_ignore_inline_noqa THEN "ignore_inline_noqa" :> TRUE ELSE EmptyNamespace

PropertyDecoratorsKeyword(c) ==
    IF supports_property_decorators
    THEN "property_decorators" :>
            (IF Truthy(c["property_decorators"])
             THEN Some(Range(Split(c["property_decorators"][1], ",")))
             ELSE None)
    ELSE EmptyNamespace

SelfOnlyInitKeyword(c) ==
    IF supports_ignore_self_only_init
    THEN "ignore_self_only_init" :> c["ignore_self_only_init"]
    ELSE EmptyNamespace

\* The property-decorators keyword is built under the wrong capability flag
AttributeMissingUnderNoqa(c) ==
    \/ supports_ignore_inline_noqa /\ ~HasAttr(c, "property_decorators")
    \/ supports_ignore_self_only_init /\ ~HasAttr(c, "ignore_self_only_init")

\* reading an attribute neither the instance nor the class has
AttributeMissing(c) ==
    \/ supports_property_decorators /\ ~HasAttr(c, "property_decorators")
    \/ supports_ignore_self_only_init /\ ~HasAttr(c, "ignore_self_only_init")

\* lines 204-212
CheckSourceCall(self, c) ==
    [called |-> TRUE, source |-> self.source, filename |-> self.filename,
     ignore_decorators |->
        IF HasAttr(c, "ignore_decorators") THEN c["ignore_decorators"] ELSE None,
     kwargs |-> NoqaKeyword @@ PropertyDecoratorsKeyword(c) @@ SelfOnlyInitKeyword(c)]

\* run() binds the missing defaults on the class before it checks
RunStartBindingDefaults(i) ==
    /\ inst[i].pc = "idle"
    /\ cls' = IF HasAttr(cls, "ignore_decorators") THEN cls
              ELSE SetAttr(cls, "ignore_decorators", None)
    /\ inst' = [inst EXCEPT ![i] =
                  IF AttributeMissing(cls)
                  THEN [@ EXCEPT !.pc = "raised", !.exc = "AttributeError"]
                  ELSE [@ EXCEPT !.pc = "running", !.alive = TRUE,
                                 !.checked_codes = CheckedCodes(cls),
                                 !.call = CheckSourceCall(inst[i], cls)]]
    /\ UNCHANGED <<modvars, parser, options, parse_exc, parse_calls>>

\* The first resumption of run(): the checked codes are computed, then
\* _check_source calls _call_check_source, which builds the backend's generator
RunStart(i) ==
    /\ inst[i].pc = "idle"
    /\ LET self == inst[i]
           checked == CheckedCodes(cls)
           conv == IF HasAttr(cls, "convention") THEN Some(cls["convention"]) ELSE None
       IN  inst' = [inst EXCEPT ![i] =
              IF AttributeMissing(cls)
              THEN [self EXCEPT !.pc = "raised", !.exc = "AttributeError",
                                !.checked_codes = checked, !.convention = conv]
              ELSE [self EXCEPT !.pc = "running", !.alive = TRUE,
                                !.checked_codes = checked, !.convention = conv,
                                !.call = CheckSourceCall(self, cls)]]
    /\ UNCHANGED <<modvars, parser, cls, options, parse_exc, parse_calls>>

\* The whole text of the failure is kept, not only its first line
AllErrorWholeText(text) ==
    [code |-> "D999", short_desc |-> text, line |-> 0, class |-> "AllError"]

\* AllError.__init__ and its line property
AllError(text) ==
    [code |-> "D999", short_desc |-> Partition0(text, "\n"), line |-> 0,
     class |-> "AllError"]

\* EnvironError.__init__ and its line property
EnvironError(text) ==
    [code |-> "D998", short_desc |-> <<"EnvironmentError: ">> \o text, line |-> 0,
     class |-> "EnvironError"]

\* isinstance(error, pep257.Error)
IsError(error) == error.class \in {"Error", "AllError", "EnvironError"}

CheckerClass == "pep257Checker"

\* The line is reported as the column too
ReportLineAsColumn(error) ==
    <<error.line, error.line, <<error.code, " ">> \o error.short_desc, CheckerClass>>

\* run, lines 241-242
Report(error) ==
    <<error.line, 0, <<error.code, " ">> \o error.short_desc, CheckerClass>>

\* run, lines 239-242: what one error from _check_source adds to the output
Reported(checked, error) ==
    IF IsError(error) /\ Contains(checked, error.code) THEN <<Report(error)>> ELSE <<>>

\* Both except clauses build the aggregate record
RecoveredAsAllError(ev) == AllError(ev.text)

\* _check_source, lines 218-221: the record an exception of the backend becomes
Recovered(ev) ==
    IF ev.kind = "AllError" THEN AllError(ev.text) ELSE EnvironError(ev.text)

Caught(ev) == ev.kind \in {"AllError", "OSError"}

\* One resumption of the backend's generator and what _check_source and run do
\* with its outcome.  The backend is a black box: it yields an error, stops,
\* or raises; only AllError and OSError are caught, anything else leaves run().
RunStep(i, ev, cap) ==
    /\ inst[i].pc = "running"
    /\ inst[i].alive
    /\ ev.kind = "error" => Len(inst[i].errs) < cap
    /\ LET self == inst[i]
       IN  inst' = [inst EXCEPT ![i] =
              CASE ev.kind = "error" ->
                     [self EXCEPT !.errs = Append(@, ev.err),
                                  !.out = @ \o Reported(self.checked_codes, ev.err)]
                [] ev.kind = "stop" -> [self EXCEPT !.pc = "done", !.alive = FALSE]
                [] Caught(ev) ->
                     [self EXCEPT !.alive = FALSE,
                                  !.failure = Some([kind |-> ev.kind, text |-> ev.text]),
                                  !.out = @ \o Reported(self.checked_codes, Recovered(ev))]
                [] OTHER -> [self EXCEPT !.pc = "raised", !.alive = FALSE,
                                         !.exc = ev.kind]]
    /\ UNCHANGED <<modvars, parser, cls, options, parse_exc, parse_calls>>

\* The resumption after an except clause has yielded its record: _check_source
\* returns, so run's loop ends
RunFinish(i) ==
    /\ inst[i].pc = "running"
    /\ ~inst[i].alive
    /\ inst' = [inst EXCEPT ![i].pc = "done"]
    /\ UNCHANGED <<modvars, parser, cls, options, parse_exc, parse_calls>>

\* ------------------------------------------------------------------------
\* Specifications
\* ------------------------------------------------------------------------
Init ==
    /\ module_name = ""
    /\ backend_version = <<>>
    /\ pydocstyle_version = <<>>
    /\ supports_ignore_inline_noqa = FALSE
    /\ supports_property_decorators = FALSE
    /\ supports_ignore_self_only_init = FALSE
    /\ parser = EmptyNamespace
    /\ cls = EmptyNamespace
    /\ options = None
    /\ parse_exc = ""
    /\ parse_calls = 0
    /\ inst = [i \in Files |-> Absent]

\* One file checked, flake8 calling parse_options at most once
Next ==
    \/ \E v \in MainVersions : ImportPydocstyle(v)
    \/ ImportPep257
    \/ AddOptions
    \/ \E o \in ParsedOptions : parse_calls = 0 /\ ParseOptions(o)
    \/ \E lines \in SourceLines : Construct(1, lines)
    \/ RunStart(1)
    \/ \E ev \in Events : RunStep(1, ev, MaxErrs)
    \/ RunFinish(1)

Spec == Init /\ [][Next]_vars

\* The capability probe over every version
NextProbe ==
    \/ \E v \in AllVersions : ImportPydocstyle(v)
    \/ ImportPep257
    \/ AddOptions
    \/ \E lines \in SourceLines : Construct(1, lines)

SpecProbe == Init /\ [][NextProbe]_vars

\* parse_options called repeatedly
NextParse ==
    \/ \E v \in MainVersions : ImportPydocstyle(v)
    \/ ImportPep257
    \/ AddOptions
    \/ \E o \in ParsedOptions : ParseOptions(o)

SpecParse == Init /\ [][NextParse]_vars

\* Several files checked, their steps interleaved
NextShared ==
    \/ \E v \in SharedVersions : ImportPydocstyle(v)
    \/ ImportPep257
    \/ AddOptions
    \/ \E o \in SharedOptions : parse_calls = 0 /\ ParseOptions(o)
    \/ \E i \in Files, lines \in SourceLines : Construct(i, lines)
    \/ \E i \in Files : RunStart(i)
    \/ \E i \in Files, ev \in SharedEvents : RunStep(i, ev, SharedMaxErrs)
    \/ \E i \in Files : RunFinish(i)

SpecShared == Init /\ [][NextShared]_vars

\* ------------------------------------------------------------------------
\* Properties
\* ------------------------------------------------------------------------
Started(s) == s.pc \in {"running", "done", "raised"}

OutCode(t) == t[3][1]

OutCodes(s) == {OutCode(s.out[k]) : k \in 1..Len(s.out)}

\* The tuples run() owes for the errors the backend has produced: one per error
\* whose code is in the checked-code set, in the backend's order
Owed(s) ==
    LET Passes(e) == Contains(s.checked_codes, e.code)
        kept == SelectSeq(s.errs, Passes)
    IN  [k \in 1..Len(kept) |->
            <<kept[k].line, 0, <<kept[k].code, " ">> \o kept[k].short_desc,
              "pep257Checker">>]

\* r is the text of t before its first newline
IsFirstLineOf(r, t) ==
    /\ Len(r) <= Len(t)
    /\ r = SubSeq(t, 1, Len(r))
    /\ \A k \in 1..Len(r) : r[k] # "\n"
    /\ Len(r) = Len(t) \/ t[Len(r) + 1] = "\n"

\* C1: once a convention C is bound, a run reports only codes of
\* conventions[C], D998 and D999; and under "all" every error the backend
\* produced is reported
C1_ConventionFilter ==
    \A i \in Files :
        LET s == inst[i]
        IN  s.convention # None =>
              IF s.convention[1] = "all"
              THEN /\ Len(s.out) = Len(s.errs) + Len(s.failure)
                   /\ \A k \in 1..Len(s.errs) :
                         /\ OutCode(s.out[k]) = s.errs[k].code
                         /\ s.out[k][1] = s.errs[k].line
              ELSE OutCodes(s) \subseteq
                      (conventions[s.convention[1]] \cup {"D998", "D999"})

C1_Witness ==
    \E i \in Files :
        /\ inst[i].convention = Some("pep257")
        /\ inst[i].pc = "done"
        /\ Len(inst[i].errs) = 2
        /\ inst[i].errs[1].code = "D203"
        /\ Len(inst[i].out) = 1

\* C2: without any parse_options call, run() completes and reports nothing but
\* D998 and D999 records
C2_UnconfiguredRunCompletes ==
    \A i \in Files :
        (parse_calls = 0 /\ Started(inst[i])) =>
            /\ inst[i].pc # "raised"
            /\ OutCodes(inst[i]) \subseteq {"D998", "D999"}

C4_AggregateFailureRecord ==
    \A i \in Files :
        LET s == inst[i]
        IN  (s.failure # None /\ s.failure[1].kind = "AllError") =>
              /\ s.pc \in {"running", "done"}
              /\ Cardinality({k \in 1..Len(s.out) : OutCode(s.out[k]) = "D999"}) = 1
              /\ LET last == s.out[Len(s.out)]
                 IN  /\ last[1] = 0
                     /\ last[2] = 0
                     /\ SubSeq(last[3], 1, 2) = <<"D999", " ">>
                     /\ IsFirstLineOf(SubSeq(last[3], 3, Len(last[3])),
                                      s.failure[1].text)
                     /\ last[4] = "pep257Checker"

C4_Witness ==
    \E i \in Files :
        /\ inst[i].failure = Some([kind |-> "AllError", text |-> <<"x", "\n">>])
        /\ inst[i].pc = "done"
        /\ inst[i].convention = None

\* a >= x, then b >= y, then c >= z: (a, b, c) is not below (x, y, z)
AtLeast(a, b, c, x, y, z) == a > x \/ (a = x /\ (b > y \/ (b = y /\ c >= z)))

\* C5: each capability flag is true exactly from its threshold version on
\* (6.0.0, 6.2.0, 6.3.0), and all three are false with the legacy backend
C5_FlagsAreThresholds ==
    /\ module_name = "pep257" =>
          /\ ~supports_ignore_inline_noqa
          /\ ~supports_property_decorators
          /\ ~supports_ignore_self_only_init
    /\ \A a \in 0..MaxMajor, b \in 0..10, c \in 0..MaxPatch :
          (module_name = "pydocstyle" /\ backend_version = VersionText(a, b, c)) =>
              /\ supports_ignore_inline_noqa = AtLeast(a, b, c, 6, 0, 0)
              /\ supports_property_decorators = AtLeast(a, b, c, 6, 2, 0)
              /\ supports_ignore_self_only_init = AtLeast(a, b, c, 6, 3, 0)
    /\ module_name = "pydocstyle" =>
          \E a \in 0..MaxMajor, b \in 0..10, c \in 0..MaxPatch :
              backend_version = VersionText(a, b, c)

C5_Witness ==
    /\ module_name = "pydocstyle"
    /\ backend_version = VersionText(6, 2, 0)
    /\ supports_ignore_inline_noqa
    /\ supports_property_decorators
    /\ ~supports_ignore_self_only_init

\* C6: an option is declared exactly when its keyword is passed to
\* check_source, and neither happens for a capability the backend lacks
C6_OptionsMatchKeywords ==
    /\ HasAttr(parser, "--property-decorators") => supports_property_decorators
    /\ HasAttr(parser, "--ignore-self-only-init") => supports_ignore_self_only_init
    /\ \A i \in Files :
          LET passed == DOMAIN inst[i].call.kwargs
          IN  inst[i].call.called =>
                /\ "ignore_inline_noqa" \in passed => supports_ignore_inline_noqa
                /\ "property_decorators" \in passed => supports_property_decorators
                /\ "ignore_self_only_init" \in passed => supports_ignore_self_only_init
                /\ parser # EmptyNamespace =>
                      /\ HasAttr(parser, "--property-decorators")
                            <=> "property_decorators" \in passed
                      /\ HasAttr(parser, "--ignore-self-only-init")
                            <=> "ignore_self_only_init" \in passed

C6_Witness ==
    \E i \in Files :
        /\ inst[i].call.called
        /\ HasAttr(parser, "--property-decorators")
        /\ ~HasAttr(parser, "--ignore-self-only-init")
        /\ DOMAIN inst[i].call.kwargs = {"ignore_inline_noqa", "property_decorators"}

\* C7: only parse_options writes the shared configuration; constructing and
\* running checkers, in any interleaving, leaves it as it was
C7_OnlyParseOptionsWrites ==
    [][/\ cls' # cls => parse_calls' = parse_calls + 1
       /\ inst' # inst => cls' = cls]_vars

C7_Witness ==
    /\ HasAttr(cls, "convention")
    /\ inst[1].pc = "done"
    /\ Len(inst[1].out) = 1
    /\ inst[2].pc = "running"
    /\ inst[2].convention = None
    /\ Len(inst[2].errs) = 1

KnownBadPatterns == {<<"(">>}

Falsy(arg) == arg = None \/ arg = Some(<<>>)

\* C8: parse_options given a non-empty pattern that is no regular expression
\* raises and leaves cls.ignore_decorators as it was; the matcher is bound to
\* None only by an empty or missing pattern
C8_BadPatternPropagates ==
    [][parse_calls' = parse_calls + 1 =>
         LET arg == options'[1].ignore_decorators
         IN  /\ (arg # None /\ arg[1] \in KnownBadPatterns) =>
                   /\ parse_exc' = "re.error"
                   /\ HasAttr(cls', "ignore_decorators") = HasAttr(cls, "ignore_decorators")
                   /\ HasAttr(cls, "ignore_decorators") =>
                         cls'["ignore_decorators"] = cls["ignore_decorators"]
             /\ parse_exc' = "" =>
                   (cls'["ignore_decorators"] = None <=> Falsy(arg))]_vars

C8_Witness ==
    /\ parse_exc = "re.error"
    /\ parse_calls = 2
    /\ HasAttr(cls, "ignore_decorators")
    /\ cls["ignore_decorators"] = Some([pattern |-> <<"a">>])

\* C9: while the backend's stream has not failed, run() has yielded exactly one
\* tuple (line, 0, code + " " + short_desc, checker class) per backend error
\* whose code is in the checked-code set, in the backend's order, nothing else
C9_OneTuplePerCheckedError ==
    \A i \in Files :
        LET s == inst[i]
        IN  (s.pc \in {"running", "done"} /\ s.failure = None) =>
              /\ Len(s.out) = Len(Owed(s))
              /\ \A k \in 1..Len(s.out) : s.out[k] = Owed(s)[k]

C9_Witness ==
    \E i \in Files :
        /\ inst[i].pc = "done"
        /\ inst[i].failure = None
        /\ inst[i].convention = Some("google")
        /\ Len(inst[i].errs) = 2
        /\ inst[i].errs[1].code = "D212"
        /\ inst[i].errs[2].code = "D100"
        /\ Len(inst[i].out) = 2

\* C10: when the backend's stream fails after n errors, the output is the
\* tuples owed for those n errors followed by one synthetic record at line 0
\* (D999 for AllError, D998 with the prefix "EnvironmentError: " for OSError),
\* which stays the last element
C10_SyntheticRecordIsLast ==
    \A i \in Files :
        LET s == inst[i]
        IN  s.failure # None =>
              /\ s.pc \in {"running", "done"}
              /\ ~s.alive
              /\ Len(s.out) = Len(Owed(s)) + 1
              /\ \A k \in 1..Len(Owed(s)) : s.out[k] = Owed(s)[k]
              /\ Cardinality({k \in 1..Len(s.out) :
                                 OutCode(s.out[k]) \in {"D998", "D999"}}) = 1
              /\ LET last == s.out[Len(s.out)]
                 IN  /\ last[1] = 0
                     /\ last[2] = 0
                     /\ s.failure[1].kind = "AllError" => OutCode(last) = "D999"
                     /\ s.failure[1].kind = "OSError" =>
                           last[3] = <<"D998", " ", "EnvironmentError: ">>
                                        \o s.failure[1].text

C10_Witness ==
    \E i \in Files :
        /\ inst[i].pc = "done"
        /\ inst[i].failure # None
        /\ inst[i].failure[1].kind = "OSError"
        /\ inst[i].convention = Some("pep257")
        /\ Len(inst[i].errs) = 2
        /\ Len(inst[i].out) = 2
====
